---- MODULE Spec2Model ----
(***************************************************************************)
(* Binary String Toolkit (bstrings.c): the option loop and dispatch of     *)
(* main, the input collectors (read_and_store_char_input, read_from_file), *)
(* generate_badchar_sequence and the literal formatter                     *)
(* output_hex_escaped_string.                                              *)
(*                                                                         *)
(* Characters are their ASCII codes; a char is signed, so it ranges over   *)
(* -128..127 and EOF is -1.  Standard output is the sequence of characters *)
(* written to it so far.                                                   *)
(***************************************************************************)
EXTENDS Integers, Sequences, FiniteSets, TLC

VARIABLES
    pc,                        \* position of the process in main and its callees
    nopts,                     \* options returned by getopt_long so far
    verbose_flag,
    interactive_flag,
    doOutputHexEscapedString,
    doOutputBadCharString,
    doHexDumpFile,
    doReadFromFile,
    doLimitBinaryStringWidth,
    fread_filename,
    output_lang,
    string_width,
    consumed,                  \* bytes read from stdin or from the file so far
    ptr_file_read,             \* "unset", "null", "open" or "closed"
    ptr_char_array,            \* the heap block: one cell per allocated byte
    array_size,
    rd_i,                      \* index i of the collectors
    mode,                      \* mode argument of read_from_file
    gen_i,                     \* index i of generate_badchar_sequence
    length,                    \* length of generate_badchar_sequence
    oob,                       \* a store landed outside the allocated block
    i,                         \* index i of output_hex_escaped_string
    ai,
    invalidhexchar,
    stdout,
    stderr,                    \* the messages written to standard error
    exit_status                \* <<>> while running, <<status>> once exited

optVars == <<nopts, doOutputHexEscapedString,
             doOutputBadCharString, doHexDumpFile, doReadFromFile,
             doLimitBinaryStringWidth, fread_filename>>
cfgVars == <<verbose_flag, interactive_flag, output_lang, string_width>>
srcVars == <<consumed, ptr_file_read>>
bufVars == <<ptr_char_array, array_size>>
colVars == <<rd_i, mode, gen_i, length, oob>>
fmtVars == <<i, ai, invalidhexchar>>
endVars == <<stderr, exit_status>>

vars == <<pc, optVars, cfgVars, srcVars, bufVars, colVars, fmtVars, stdout,
          endVars>>

(***************************************************************************)
(* Bounds of the model.                                                    *)
(***************************************************************************)
MaxLen == 4          \* longest formatter input over the full alphabet
MaxWidth == 2        \* largest wrap width given with -w
MaxOpts == 3         \* most options on one command line
MaxInput == 2        \* most bytes on standard input or in the file

(***************************************************************************)
(* Program constants.                                                      *)
(***************************************************************************)
BADCHAR_HEX_SEQLEN == 510
EOF == 0 - 1
EXIT_SUCCESS == 0
EXIT_FAILURE == 1

\* Content of a heap cell that malloc/realloc returned and nothing has stored to.
Uninit == 256

\* Values an indeterminate byte is read as: an ignored one, a hex digit, an
\* invalid one.
GarbageBytes == {0, 52, 103}

(***************************************************************************)
(* String literals of the source, as ASCII codes.                          *)
(***************************************************************************)
\* "unsigned char buffer[] =\n"
C_PREAMBLE ==
    <<117, 110, 115, 105, 103, 110, 101, 100, 32, 99, 104, 97, 114, 32, 98,
      117, 102, 102, 101, 114, 91, 93, 32, 61, 10>>
\* "buffer =  \"\"\n"
PY_PREAMBLE ==
    <<98, 117, 102, 102, 101, 114, 32, 61, 32, 32, 34, 34, 10>>
\* "buffer += "
PY_APPEND ==
    <<98, 117, 102, 102, 101, 114, 32, 43, 61, 32>>
\* "[-] Warning: "
WARN_HEAD ==
    <<91, 45, 93, 32, 87, 97, 114, 110, 105, 110, 103, 58, 32>>
\* " non-hexadecimal character(s) detected in input.\n"
WARN_TAIL ==
    <<32, 110, 111, 110, 45, 104, 101, 120, 97, 100, 101, 99, 105, 109, 97,
      108, 32, 99, 104, 97, 114, 97, 99, 116, 101, 114, 40, 115, 41, 32,
      100, 101, 116, 101, 99, 116, 101, 100, 32, 105, 110, 32, 105, 110,
      112, 117, 116, 46, 10>>

\* "Usage: "
USAGE_HEAD ==
    <<85, 115, 97, 103, 101, 58, 32>>
\* the usage text after the program name
USAGE_TAIL ==
    <<32, 91, 79, 80, 84, 73, 79, 78, 93, 46, 46, 46, 10, 32, 67, 111, 110,
      118, 101, 114, 116, 32, 105, 110, 112, 117, 116, 32, 116, 111, 32,
      115, 112, 101, 99, 105, 102, 105, 101, 100, 32, 98, 105, 110, 97, 114,
      121, 32, 115, 116, 114, 105, 110, 103, 32, 102, 111, 114, 109, 97,
      116, 46, 10, 10, 32, 65, 116, 32, 108, 101, 97, 115, 116, 32, 111,
      110, 101, 32, 111, 102, 32, 116, 104, 101, 32, 98, 101, 108, 111, 119,
      32, 111, 112, 116, 105, 111, 110, 115, 32, 109, 117, 115, 116, 32, 98,
      101, 32, 103, 105, 118, 101, 110, 58, 10, 32, 32, 32, 32, 45, 68, 44,
      32, 45, 45, 100, 117, 109, 112, 45, 102, 105, 108, 101, 61, 70, 73,
      76, 69, 32, 32, 32, 32, 68, 117, 109, 112, 32, 99, 111, 110, 116, 101,
      110, 116, 32, 111, 102, 32, 102, 105, 108, 101, 32, 70, 73, 76, 69,
      32, 105, 110, 32, 104, 101, 120, 97, 100, 101, 99, 105, 109, 97, 108,
      32, 102, 111, 114, 109, 97, 116, 10, 32, 32, 32, 32, 45, 120, 44, 32,
      45, 45, 104, 101, 120, 45, 101, 115, 99, 97, 112, 101, 32, 32, 32, 32,
      32, 32, 32, 32, 69, 115, 99, 97, 112, 101, 32, 105, 110, 112, 117,
      116, 32, 104, 101, 120, 97, 100, 101, 99, 105, 109, 97, 108, 32, 115,
      116, 114, 105, 110, 103, 10, 32, 32, 32, 32, 45, 98, 44, 32, 45, 45,
      103, 101, 110, 45, 98, 97, 100, 99, 104, 97, 114, 32, 32, 32, 32, 32,
      32, 32, 71, 101, 110, 101, 114, 97, 116, 101, 32, 97, 32, 98, 97, 100,
      32, 99, 104, 97, 114, 97, 99, 116, 101, 114, 32, 115, 101, 113, 117,
      101, 110, 99, 101, 32, 115, 116, 114, 105, 110, 103, 10, 32, 32, 32,
      32, 10, 32, 84, 104, 101, 32, 98, 101, 108, 111, 119, 32, 115, 119,
      105, 116, 99, 104, 101, 115, 32, 97, 114, 101, 32, 111, 112, 116, 105,
      111, 110, 97, 108, 58, 10, 32, 32, 32, 32, 45, 102, 44, 32, 45, 45,
      102, 105, 108, 101, 61, 70, 73, 76, 69, 32, 32, 32, 32, 32, 32, 32,
      32, 32, 82, 101, 97, 100, 32, 105, 110, 112, 117, 116, 32, 102, 114,
      111, 109, 32, 102, 105, 108, 101, 32, 70, 73, 76, 69, 32, 105, 110,
      115, 116, 101, 97, 100, 32, 111, 102, 32, 115, 116, 100, 105, 110, 10,
      32, 32, 32, 32, 45, 119, 44, 32, 45, 45, 119, 105, 100, 116, 104, 61,
      98, 121, 116, 101, 115, 32, 32, 32, 32, 32, 32, 32, 66, 114, 101, 97,
      107, 32, 98, 105, 110, 97, 114, 121, 32, 115, 116, 114, 105, 110, 103,
      115, 32, 116, 111, 32, 115, 112, 101, 99, 105, 102, 105, 101, 100, 32,
      108, 101, 110, 103, 116, 104, 32, 105, 110, 32, 98, 121, 116, 101,
      115, 10, 32, 32, 32, 32, 45, 115, 44, 32, 45, 45, 115, 121, 110, 116,
      97, 120, 61, 76, 65, 78, 71, 32, 32, 32, 32, 32, 32, 32, 83, 121, 110,
      116, 97, 120, 32, 111, 102, 32, 116, 104, 101, 32, 98, 105, 110, 97,
      114, 121, 32, 115, 116, 114, 105, 110, 103, 32, 111, 117, 116, 112,
      117, 116, 10, 32, 32, 32, 32, 45, 104, 44, 32, 45, 45, 104, 101, 108,
      112, 32, 32, 32, 32, 32, 32, 32, 32, 32, 32, 32, 32, 32, 32, 68, 105,
      115, 112, 108, 97, 121, 32, 116, 104, 105, 115, 32, 104, 101, 108,
      112, 10, 32, 32, 32, 32, 32, 32, 32, 45, 45, 105, 110, 116, 101, 114,
      97, 99, 116, 105, 118, 101, 32, 32, 32, 32, 32, 32, 32, 32, 69, 110,
      116, 101, 114, 32, 105, 110, 116, 101, 114, 97, 99, 116, 105, 118,
      101, 32, 109, 111, 100, 101, 10, 32, 32, 32, 32, 32, 32, 32, 45, 45,
      118, 101, 114, 98, 111, 115, 101, 32, 32, 32, 32, 32, 32, 32, 32, 32,
      32, 32, 32, 69, 110, 97, 98, 108, 101, 32, 118, 101, 114, 98, 111,
      115, 101, 32, 111, 117, 116, 112, 117, 116, 10, 32, 32, 32, 32, 32,
      32, 32, 45, 45, 118, 101, 114, 115, 105, 111, 110, 32, 32, 32, 32, 32,
      32, 32, 32, 32, 32, 32, 32, 80, 114, 105, 110, 116, 32, 118, 101, 114,
      115, 105, 111, 110, 32, 105, 110, 102, 111, 114, 109, 97, 116, 105,
      111, 110, 10, 32, 32, 32, 32, 10>>
\* "[*] Convert hexadecimal input to an escaped binary string.\n"
MSG_CONVERT ==
    <<91, 42, 93, 32, 67, 111, 110, 118, 101, 114, 116, 32, 104, 101, 120,
      97, 100, 101, 99, 105, 109, 97, 108, 32, 105, 110, 112, 117, 116, 32,
      116, 111, 32, 97, 110, 32, 101, 115, 99, 97, 112, 101, 100, 32, 98,
      105, 110, 97, 114, 121, 32, 115, 116, 114, 105, 110, 103, 46, 10>>
\* "[+] Binary string width is limited to "
MSG_WIDTH_HEAD ==
    <<91, 43, 93, 32, 66, 105, 110, 97, 114, 121, 32, 115, 116, 114, 105,
      110, 103, 32, 119, 105, 100, 116, 104, 32, 105, 115, 32, 108, 105,
      109, 105, 116, 101, 100, 32, 116, 111, 32>>
\* " bytes.\n"
MSG_WIDTH_TAIL ==
    <<32, 98, 121, 116, 101, 115, 46, 10>>
\* "[*] Generating bad character binary string.\n"
MSG_BADCHAR ==
    <<91, 42, 93, 32, 71, 101, 110, 101, 114, 97, 116, 105, 110, 103, 32,
      98, 97, 100, 32, 99, 104, 97, 114, 97, 99, 116, 101, 114, 32, 98, 105,
      110, 97, 114, 121, 32, 115, 116, 114, 105, 110, 103, 46, 10>>
\* "[+] Hit CTRL-D twice to terminate input.\n"
MSG_CTRL_D ==
    <<91, 43, 93, 32, 72, 105, 116, 32, 67, 84, 82, 76, 45, 68, 32, 116,
      119, 105, 99, 101, 32, 116, 111, 32, 116, 101, 114, 109, 105, 110, 97,
      116, 101, 32, 105, 110, 112, 117, 116, 46, 10>>
\* "Error: input filename \""
ERR_FILE_HEAD ==
    <<69, 114, 114, 111, 114, 58, 32, 105, 110, 112, 117, 116, 32, 102, 105,
      108, 101, 110, 97, 109, 101, 32, 34>>
\* "\" cannot be read.\n"
ERR_FILE_TAIL ==
    <<34, 32, 99, 97, 110, 110, 111, 116, 32, 98, 101, 32, 114, 101, 97,
      100, 46, 10>>
\* " byte(s) memory allocation error."
ERR_ALLOC_TAIL ==
    <<32, 98, 121, 116, 101, 40, 115, 41, 32, 109, 101, 109, 111, 114, 121,
      32, 97, 108, 108, 111, 99, 97, 116, 105, 111, 110, 32, 101, 114, 114,
      111, 114, 46>>
\* " byte(s) memory re-allocation error."
ERR_REALLOC_TAIL ==
    <<32, 98, 121, 116, 101, 40, 115, 41, 32, 109, 101, 109, 111, 114, 121,
      32, 114, 101, 45, 97, 108, 108, 111, 99, 97, 116, 105, 111, 110, 32,
      101, 114, 114, 111, 114, 46>>
\* argv[0]: "bst"
PROGRAM_NAME ==
    <<98, 115, 116>>
\* the FILE argument of -D and -f: "in"
FILE_NAME ==
    <<105, 110>>

QUOTE == <<34>>
NEWLINE == <<10>>
BACKSLASH_X == <<92, 120>>

(***************************************************************************)
(* printf conversions.                                                     *)
(***************************************************************************)
RECURSIVE DecDigits(_)
\* the decimal digits of n >= 0, most significant first
DecDigits(n) ==
    IF n < 10 THEN <<48 + n>> ELSE DecDigits(n \div 10) \o <<48 + (n % 10)>>

\* printf("%d", n)
Dec(n) == IF n < 0 THEN <<45>> \o DecDigits(0 - n) ELSE DecDigits(n)

\* one lowercase hexadecimal digit of "%x"
HexDigit(d) == IF d < 10 THEN 48 + d ELSE 97 + (d - 10)

\* printf("%x", n): no zero padding
Hex02_NoPad(n) ==
    IF n < 16 THEN <<HexDigit(n)>> ELSE <<HexDigit(n \div 16), HexDigit(n % 16)>>

\* printf("%02x", n) for 0 <= n <= 255
Hex02(n) == <<HexDigit(n \div 16), HexDigit(n % 16)>>

(***************************************************************************)
(* output_hex_escaped_string                                               *)
(***************************************************************************)
\* the hex-digit case without the range A-F
IsHexDigit_NoUpperCase(c) == c \in (48..57) \cup (97..102)

\* case 48 ... 57: case 65 ... 70: case 97 ... 102:
IsHexDigit(c) == c \in (48..57) \cup (65..70) \cup (97..102)

\* the inner switch without the case for null
IsIgnored_NoNull(c) == c \in {EOF, 10}

\* the inner switch: EOF, new line and null are not counted
IsIgnored(c) == c \in {EOF, 10, 0}

\* a % b of C for a >= 0 and b # 0
CRem(a, b) == a % (IF b < 0 THEN 0 - b ELSE b)

\* the end-of-line test counting digits as bytes: ai % string_width
WrapDue_DigitsAsBytes(a, width) == width # 0 /\ CRem(a, width) = 0

\* string_width != 0 and ai % (string_width*2) == 0
WrapDue(a, width) == width # 0 /\ CRem(a, width * 2) = 0

\* the switch on *output_lang taken when a line ends
WrapMarker(lang, a) ==
    CASE lang = 1 -> (IF a # 0 THEN QUOTE \o NEWLINE ELSE <<>>) \o QUOTE
      [] lang = 2 -> (IF a # 0 THEN QUOTE \o NEWLINE ELSE <<>>)
                        \o PY_APPEND \o QUOTE
      [] OTHER -> (IF a # 0 THEN NEWLINE ELSE <<>>)

\* what the hex-digit case writes for character c at digit index a
EmitDigit(c, a, lang, width) ==
    IF a % 2 = 0
    THEN (IF WrapDue(a, width) THEN WrapMarker(lang, a) ELSE <<>>)
            \o BACKSLASH_X \o <<c>>
    ELSE <<c>>

\* what is written before the loop
Preamble(lang, verbose, interactive) ==
    (IF interactive # 0 THEN NEWLINE ELSE <<>>)
    \o (IF verbose # 0
        THEN (CASE lang = 1 -> C_PREAMBLE
                [] lang = 2 -> PY_PREAMBLE
                [] OTHER -> <<>>)
        ELSE <<>>)

\* the switch after the loop and the final new line
Closing(lang) == (IF lang \in {1, 2} THEN QUOTE ELSE <<>>) \o NEWLINE

\* the warning of the last if statement
Warning(verbose, invalid) ==
    IF verbose = 1 /\ invalid > 0
    THEN WARN_HEAD \o Dec(invalid) \o WARN_TAIL
    ELSE <<>>

\* the values c = ptr_char_array[idx] can take
ReadByte(block, idx) ==
    IF idx < Len(block) /\ block[idx + 1] # Uninit
    THEN {block[idx + 1]}
    ELSE GarbageBytes

\* entry of the function up to the loop
FmtEntry ==
    /\ pc = "fmt_entry"
    /\ i' = 0
    /\ ai' = 0
    /\ invalidhexchar' = 0
    /\ stdout' = stdout \o Preamble(output_lang, verbose_flag, interactive_flag)
    /\ pc' = "fmt_loop"
    /\ UNCHANGED <<optVars, cfgVars, srcVars, bufVars, colVars, endVars>>

\* one iteration of the for loop
FmtScan ==
    /\ pc = "fmt_loop"
    /\ i < array_size
    /\ \E c \in ReadByte(ptr_char_array, i) :
          IF IsHexDigit(c)
          THEN /\ stdout' = stdout \o EmitDigit(c, ai, output_lang, string_width)
               /\ ai' = ai + 1
               /\ UNCHANGED invalidhexchar
          ELSE /\ invalidhexchar' =
                      IF IsIgnored(c) THEN invalidhexchar ELSE invalidhexchar + 1
               /\ UNCHANGED <<stdout, ai>>
    /\ i' = i + 1
    /\ UNCHANGED <<pc, optVars, cfgVars, srcVars, bufVars, colVars, endVars>>

\* the end of the binary string and the return
FmtFinish ==
    /\ pc = "fmt_loop"
    /\ i >= array_size
    /\ stdout' = stdout \o Closing(output_lang)
                        \o Warning(verbose_flag, invalidhexchar)
    /\ pc' = "fmt_ret"
    /\ UNCHANGED <<optVars, cfgVars, srcVars, bufVars, colVars, fmtVars, endVars>>

(***************************************************************************)
(* The heap block behind ptr_char_array.                                   *)
(***************************************************************************)
\* the block malloc(n) returns
Malloc(n) == [k \in 1..n |-> Uninit]

\* realloc given the size before its increment: one cell short
Realloc_OneShort(block, n) ==
    [k \in 1..(n - 1) |-> IF k <= Len(block) THEN block[k] ELSE Uninit]

\* the block realloc(block, n) returns: the old content, then new cells
Realloc(block, n) ==
    [k \in 1..n |-> IF k <= Len(block) THEN block[k] ELSE Uninit]

\* block after storing vals at offsets at, at + 1, ...; a store outside the
\* block leaves the block alone
StoreAll(block, at, vals) ==
    [k \in 1..Len(block) |->
        IF k - 1 >= at /\ k - 1 < at + Len(vals) THEN vals[k - at] ELSE block[k]]

\* some store of vals at offset at lands outside the block
Overflows(block, at, vals) == at + Len(vals) > Len(block)

\* (char)c for the int c that getchar/getc return
ToChar(c) == IF c > 127 THEN c - 256 ELSE c

\* values getchar() and getc() return before EOF
InputBytes == {52, 10, 200}

\* what allocate_dynamic_memory prints before exit(EXIT_FAILURE)
AllocError(n) == Dec(n) \o ERR_ALLOC_TAIL

\* what change_dynamic_memory prints before exit(EXIT_FAILURE)
ReallocError(n) == Dec(n) \o ERR_REALLOC_TAIL

(***************************************************************************)
(* read_and_store_char_input                                               *)
(***************************************************************************)
\* entry of the function up to the loop: the prompt and malloc(1)
StdinBegin ==
    /\ pc = "stdin_entry"
    /\ rd_i' = 0
    /\ LET prompt == IF interactive_flag # 0 THEN MSG_CTRL_D ELSE <<>>
       IN  \/ /\ ptr_char_array' = Malloc(1)
              /\ stdout' = stdout \o prompt
              /\ pc' = "stdin_loop"
              /\ UNCHANGED exit_status
           \/ /\ stdout' = stdout \o prompt \o AllocError(1)
              /\ pc' = "exit"
              /\ exit_status' = <<EXIT_FAILURE>>
              /\ UNCHANGED ptr_char_array
    /\ UNCHANGED <<optVars, cfgVars, srcVars, array_size, mode, gen_i, length,
                   oob, fmtVars, stderr>>

\* one iteration of the while loop: getchar() returned a character
StdinRead ==
    /\ pc = "stdin_loop"
    /\ Len(consumed) < MaxInput
    /\ \E c \in InputBytes :
          /\ consumed' = consumed \o <<c>>
          /\ oob' = (oob \/ Overflows(ptr_char_array, rd_i, <<ToChar(c)>>))
          /\ \/ /\ ptr_char_array' =
                      Realloc(StoreAll(ptr_char_array, rd_i, <<ToChar(c)>>),
                              array_size + 1)
                /\ array_size' = array_size + 1
                /\ rd_i' = rd_i + 1
                /\ UNCHANGED <<pc, stdout, exit_status>>
             \/ /\ ptr_char_array' = StoreAll(ptr_char_array, rd_i, <<ToChar(c)>>)
                /\ array_size' = array_size + 1
                /\ stdout' = stdout \o ReallocError(array_size + 1)
                /\ pc' = "exit"
                /\ exit_status' = <<EXIT_FAILURE>>
                /\ UNCHANGED rd_i
    /\ UNCHANGED <<optVars, cfgVars, ptr_file_read, mode, gen_i, length,
                   fmtVars, stderr>>

\* getchar() returned EOF: return to main, which calls the formatter
StdinEOF ==
    /\ pc = "stdin_loop"
    /\ pc' = "fmt_entry"
    /\ UNCHANGED <<optVars, cfgVars, srcVars, bufVars, colVars, fmtVars, stdout,
                   endVars>>

(***************************************************************************)
(* read_from_file                                                          *)
(***************************************************************************)
\* the characters of the file name the error message prints
NameTexts(name) == IF name = "uninit" THEN {<<>>, <<63>>} ELSE {FILE_NAME}

\* fopen() and the test of its result
FileOpen ==
    /\ pc = "file_entry"
    /\ \/ /\ ptr_file_read' = "open"
          /\ pc' = IF mode >= 1 THEN "file_alloc" ELSE "file_loop"
          /\ UNCHANGED <<stdout, exit_status>>
       \/ /\ ptr_file_read' = "null"
          /\ \E name \in NameTexts(fread_filename) :
                stdout' = stdout \o ERR_FILE_HEAD \o name \o ERR_FILE_TAIL
          /\ pc' = "exit"
          /\ exit_status' = <<EXIT_FAILURE>>
    /\ UNCHANGED <<optVars, cfgVars, consumed, bufVars, colVars, fmtVars, stderr>>

\* mode 1+: i = 0 and the first allocation
FileAlloc ==
    /\ pc = "file_alloc"
    /\ rd_i' = 0
    /\ \/ /\ ptr_char_array' = Malloc(mode)
          /\ array_size' = IF mode = 2 THEN array_size + 1 ELSE array_size
          /\ pc' = "file_loop"
          /\ UNCHANGED <<stdout, exit_status>>
       \/ /\ stdout' = stdout \o AllocError(mode)
          /\ pc' = "exit"
          /\ exit_status' = <<EXIT_FAILURE>>
          /\ UNCHANGED <<ptr_char_array, array_size>>
    /\ UNCHANGED <<optVars, cfgVars, srcVars, mode, gen_i, length, oob, fmtVars,
                   stderr>>

\* one iteration of either while loop: getc() returned a character
FileRead ==
    /\ pc = "file_loop"
    /\ Len(consumed) < MaxInput
    /\ \E c \in InputBytes :
          /\ consumed' = consumed \o <<c>>
          /\ IF mode = 0
             THEN /\ stdout' = stdout \o Hex02(c)
                  /\ UNCHANGED <<pc, bufVars, rd_i, oob, exit_status>>
             ELSE LET vals == IF mode = 1 THEN <<ToChar(c)>> ELSE Hex02(c)
                      stored == StoreAll(ptr_char_array, rd_i, vals)
                  IN  /\ oob' = (oob \/ Overflows(ptr_char_array, rd_i, vals))
                      /\ array_size' = array_size + mode
                      /\ \/ /\ ptr_char_array' = Realloc(stored, array_size + mode)
                            /\ rd_i' = rd_i + mode
                            /\ UNCHANGED <<pc, stdout, exit_status>>
                         \/ /\ ptr_char_array' = stored
                            /\ stdout' = stdout \o ReallocError(array_size + mode)
                            /\ pc' = "exit"
                            /\ exit_status' = <<EXIT_FAILURE>>
                            /\ UNCHANGED rd_i
    /\ UNCHANGED <<optVars, cfgVars, ptr_file_read, mode, gen_i, length,
                   fmtVars, stderr>>

\* getc() returned EOF: fclose and return to main, which calls the formatter
\* or, after a dump, exits
FileEOF ==
    /\ pc = "file_loop"
    /\ ptr_file_read' = "closed"
    /\ IF mode = 0
       THEN pc' = "exit" /\ exit_status' = <<EXIT_SUCCESS>>
       ELSE pc' = "fmt_entry" /\ UNCHANGED exit_status
    /\ UNCHANGED <<optVars, cfgVars, consumed, bufVars, colVars, fmtVars, stdout,
                   stderr>>

(***************************************************************************)
(* generate_badchar_sequence                                               *)
(***************************************************************************)
\* the allocation of BADCHAR_HEX_SEQLEN bytes, length = 0, i = 1
GenBegin ==
    /\ pc = "gen_entry"
    /\ \/ /\ ptr_char_array' = Malloc(BADCHAR_HEX_SEQLEN)
          /\ length' = 0
          /\ gen_i' = 1
          /\ pc' = "gen_loop"
          /\ UNCHANGED <<stdout, exit_status>>
       \/ /\ stdout' = stdout \o AllocError(BADCHAR_HEX_SEQLEN)
          /\ pc' = "exit"
          /\ exit_status' = <<EXIT_FAILURE>>
          /\ UNCHANGED <<ptr_char_array, length, gen_i>>
    /\ UNCHANGED <<optVars, cfgVars, srcVars, array_size, rd_i, mode, oob,
                   fmtVars, stderr>>

\* one iteration of the for loop: sprintf stores two digits and a null.  A
\* store past the block either lands in the allocator's slack or ends the
\* process.
GenStep ==
    /\ pc = "gen_loop"
    /\ gen_i < 256
    /\ LET vals == Hex02(gen_i) \o <<0>>
           over == Overflows(ptr_char_array, length, vals)
       IN  /\ ptr_char_array' = StoreAll(ptr_char_array, length, vals)
           /\ oob' = (oob \/ over)
           /\ \/ /\ length' = length + Len(Hex02(gen_i))
                 /\ gen_i' = gen_i + 1
                 /\ UNCHANGED pc
              \/ /\ over
                 /\ pc' = "killed"
                 /\ UNCHANGED <<length, gen_i>>
    /\ UNCHANGED <<optVars, cfgVars, srcVars, array_size, rd_i, mode, fmtVars,
                   stdout, endVars>>

\* the return to main, which calls the formatter
GenReturn ==
    /\ pc = "gen_loop"
    /\ gen_i >= 256
    /\ pc' = "fmt_entry"
    /\ UNCHANGED <<optVars, cfgVars, srcVars, bufVars, colVars, fmtVars, stdout,
                   endVars>>

(***************************************************************************)
(* main                                                                    *)
(***************************************************************************)
\* what print_usage writes
Usage == USAGE_HEAD \o PROGRAM_NAME \o USAGE_TAIL

\* an if (flag == true) on a flag that may never have been assigned
MayBeTrue(flag) == flag \in {"true", "uninit"}
MayBeFalse(flag) == flag \in {"false", "uninit"}

\* atoi(optarg) for the arguments given to -w
Widths == (0 - 1)..MaxWidth

\* getopt_long returned 0: it set verbose_flag or interactive_flag
OptFlag ==
    /\ pc = "getopt"
    /\ nopts < MaxOpts
    /\ nopts' = nopts + 1
    /\ \/ verbose_flag' = 1 /\ UNCHANGED interactive_flag
       \/ verbose_flag' = 0 /\ UNCHANGED interactive_flag
       \/ interactive_flag' = 1 /\ UNCHANGED verbose_flag
    /\ UNCHANGED <<pc, doOutputHexEscapedString, doOutputBadCharString,
                   doHexDumpFile, doReadFromFile, doLimitBinaryStringWidth,
                   fread_filename, output_lang, string_width, srcVars, bufVars,
                   colVars, fmtVars, stdout, endVars>>

\* case ':': the argument of an option is missing
OptMissingArgument ==
    /\ pc = "getopt"
    /\ nopts < MaxOpts
    /\ nopts' = nopts + 1
    /\ stderr' = stderr \o <<"option require an argument">>
    /\ pc' = "exit"
    /\ exit_status' = <<EXIT_FAILURE>>
    /\ UNCHANGED <<doOutputHexEscapedString, doOutputBadCharString,
                   doHexDumpFile, doReadFromFile, doLimitBinaryStringWidth,
                   fread_filename, cfgVars, srcVars, bufVars, colVars, fmtVars,
                   stdout>>

\* case '?', case 'h' and default: usage on stderr
OptHelp ==
    /\ pc = "getopt"
    /\ nopts < MaxOpts
    /\ nopts' = nopts + 1
    /\ stderr' = stderr \o <<"usage">>
    /\ pc' = "exit"
    /\ exit_status' = <<EXIT_FAILURE>>
    /\ UNCHANGED <<doOutputHexEscapedString, doOutputBadCharString,
                   doHexDumpFile, doReadFromFile, doLimitBinaryStringWidth,
                   fread_filename, cfgVars, srcVars, bufVars, colVars, fmtVars,
                   stdout>>

\* case '@': version on stderr
OptVersion ==
    /\ pc = "getopt"
    /\ nopts < MaxOpts
    /\ nopts' = nopts + 1
    /\ stderr' = stderr \o <<"version">>
    /\ pc' = "exit"
    /\ exit_status' = <<EXIT_SUCCESS>>
    /\ UNCHANGED <<doOutputHexEscapedString, doOutputBadCharString,
                   doHexDumpFile, doReadFromFile, doLimitBinaryStringWidth,
                   fread_filename, cfgVars, srcVars, bufVars, colVars, fmtVars,
                   stdout>>

\* case 'x'
OptHexEscape ==
    /\ pc = "getopt"
    /\ nopts < MaxOpts
    /\ nopts' = nopts + 1
    /\ doOutputHexEscapedString' = "true"
    /\ UNCHANGED <<pc, doOutputBadCharString, doHexDumpFile, doReadFromFile,
                   doLimitBinaryStringWidth, fread_filename, cfgVars, srcVars,
                   bufVars, colVars, fmtVars, stdout, endVars>>

\* case 'b'
OptGenBadchar ==
    /\ pc = "getopt"
    /\ nopts < MaxOpts
    /\ nopts' = nopts + 1
    /\ doOutputBadCharString' = "true"
    /\ UNCHANGED <<pc, doOutputHexEscapedString, doHexDumpFile, doReadFromFile,
                   doLimitBinaryStringWidth, fread_filename, cfgVars, srcVars,
                   bufVars, colVars, fmtVars, stdout, endVars>>

\* case 'D'
OptDumpFile ==
    /\ pc = "getopt"
    /\ nopts < MaxOpts
    /\ nopts' = nopts + 1
    /\ doHexDumpFile' = "true"
    /\ fread_filename' = "in"
    /\ UNCHANGED <<pc, doOutputHexEscapedString, doOutputBadCharString,
                   doReadFromFile, doLimitBinaryStringWidth, cfgVars, srcVars,
                   bufVars, colVars, fmtVars, stdout, endVars>>

\* case 'f'
OptFile ==
    /\ pc = "getopt"
    /\ nopts < MaxOpts
    /\ nopts' = nopts + 1
    /\ doReadFromFile' = "true"
    /\ fread_filename' = "in"
    /\ UNCHANGED <<pc, doOutputHexEscapedString, doOutputBadCharString,
                   doHexDumpFile, doLimitBinaryStringWidth, cfgVars, srcVars,
                   bufVars, colVars, fmtVars, stdout, endVars>>

\* case 's': "c" selects 1, "python" selects 2, anything else nothing
OptSyntax ==
    /\ pc = "getopt"
    /\ nopts < MaxOpts
    /\ nopts' = nopts + 1
    /\ \E arg_lang \in {"c", "python", "plain"} :
          output_lang' = CASE arg_lang = "c" -> 1
                           [] arg_lang = "python" -> 2
                           [] OTHER -> output_lang
    /\ UNCHANGED <<pc, doOutputHexEscapedString, doOutputBadCharString,
                   doHexDumpFile, doReadFromFile, doLimitBinaryStringWidth,
                   fread_filename, verbose_flag, interactive_flag, string_width,
                   srcVars, bufVars, colVars, fmtVars, stdout, endVars>>

\* case 'w'
OptWidth ==
    /\ pc = "getopt"
    /\ nopts < MaxOpts
    /\ nopts' = nopts + 1
    /\ doLimitBinaryStringWidth' = "true"
    /\ string_width' \in Widths
    /\ UNCHANGED <<pc, doOutputHexEscapedString, doOutputBadCharString,
                   doHexDumpFile, doReadFromFile, fread_filename, verbose_flag,
                   interactive_flag, output_lang, srcVars, bufVars, colVars,
                   fmtVars, stdout, endVars>>

\* getopt_long returned -1: usage on stdout when a non-option argument is
\* left or no argument was given at all
ParseEnd ==
    /\ pc = "getopt"
    /\ \E nonopt \in BOOLEAN :
          IF nonopt \/ nopts = 0
          THEN /\ stdout' = stdout \o Usage
               /\ pc' = "exit"
               /\ exit_status' = <<EXIT_SUCCESS>>
          ELSE /\ pc' = "dispatch"
               /\ UNCHANGED <<stdout, exit_status>>
    /\ UNCHANGED <<optVars, cfgVars, srcVars, bufVars, colVars, fmtVars, stderr>>

\* the banner of an action under --verbose
Banner(head) ==
    IF verbose_flag = 1
    THEN head \o (IF doLimitBinaryStringWidth = "true"
                  THEN MSG_WIDTH_HEAD \o Dec(string_width) \o MSG_WIDTH_TAIL
                  ELSE <<>>)
    ELSE <<>>

\* if (doOutputHexEscapedString == true): array_size = 1, the banner and the
\* choice of the collector
DispatchHexEscape ==
    /\ pc = "dispatch"
    /\ MayBeTrue(doOutputHexEscapedString)
    /\ array_size' = 1
    /\ stdout' = stdout \o Banner(MSG_CONVERT)
    /\ \/ /\ MayBeTrue(doHexDumpFile)
          /\ mode' = 2
          /\ pc' = "file_entry"
       \/ /\ MayBeFalse(doHexDumpFile)
          /\ MayBeTrue(doReadFromFile)
          /\ mode' = 1
          /\ pc' = "file_entry"
       \/ /\ MayBeFalse(doHexDumpFile)
          /\ MayBeFalse(doReadFromFile)
          /\ pc' = "stdin_entry"
          /\ UNCHANGED mode
    /\ UNCHANGED <<optVars, cfgVars, srcVars, ptr_char_array, rd_i, gen_i,
                   length, oob, fmtVars, endVars>>

\* if (doHexDumpFile == true): read_from_file(fread_filename, NULL, 0)
DispatchDump ==
    /\ pc = "dispatch"
    /\ MayBeFalse(doOutputHexEscapedString)
    /\ MayBeTrue(doHexDumpFile)
    /\ mode' = 0
    /\ pc' = "file_entry"
    /\ UNCHANGED <<optVars, cfgVars, srcVars, bufVars, rd_i, gen_i, length, oob,
                   fmtVars, stdout, endVars>>

\* if (doOutputBadCharString == true): array_size = BADCHAR_HEX_SEQLEN, the
\* banner and the call of generate_badchar_sequence
DispatchBadChar ==
    /\ pc = "dispatch"
    /\ MayBeFalse(doOutputHexEscapedString)
    /\ MayBeFalse(doHexDumpFile)
    /\ MayBeTrue(doOutputBadCharString)
    /\ array_size' = BADCHAR_HEX_SEQLEN
    /\ stdout' = stdout \o Banner(MSG_BADCHAR)
    /\ pc' = "gen_entry"
    /\ UNCHANGED <<optVars, cfgVars, srcVars, ptr_char_array, colVars, fmtVars,
                   endVars>>

\* no action is selected: return 0
DispatchNone ==
    /\ pc = "dispatch"
    /\ MayBeFalse(doOutputHexEscapedString)
    /\ MayBeFalse(doHexDumpFile)
    /\ MayBeFalse(doOutputBadCharString)
    /\ pc' = "exit"
    /\ exit_status' = <<EXIT_SUCCESS>>
    /\ UNCHANGED <<optVars, cfgVars, srcVars, bufVars, colVars, fmtVars, stdout,
                   stderr>>

\* after the formatter: free(ptr_char_array) and exit(EXIT_SUCCESS)
MainFree ==
    /\ pc = "fmt_ret"
    /\ ptr_char_array' = <<>>
    /\ pc' = "exit"
    /\ exit_status' = <<EXIT_SUCCESS>>
    /\ UNCHANGED <<optVars, cfgVars, srcVars, array_size, colVars, fmtVars,
                   stdout, stderr>>

Init ==
    /\ pc = "getopt"
    /\ nopts = 0
    /\ verbose_flag = 0
    /\ interactive_flag = 0
    /\ doOutputHexEscapedString = "uninit"
    /\ doOutputBadCharString = "uninit"
    /\ doHexDumpFile = "uninit"
    /\ doReadFromFile = "uninit"
    /\ doLimitBinaryStringWidth = "false"
    /\ fread_filename = "uninit"
    /\ output_lang = 0
    /\ string_width = 0
    /\ consumed = <<>>
    /\ ptr_file_read = "unset"
    /\ ptr_char_array = <<>>
    /\ array_size = 0
    /\ rd_i = 0
    /\ mode = 0
    /\ gen_i = 0
    /\ length = 0
    /\ oob = FALSE
    /\ i = 0
    /\ ai = 0
    /\ invalidhexchar = 0
    /\ stdout = <<>>
    /\ stderr = <<>>
    /\ exit_status = <<>>

Next ==
    \/ OptFlag \/ OptMissingArgument \/ OptHelp \/ OptVersion
    \/ OptHexEscape \/ OptGenBadchar \/ OptDumpFile \/ OptFile
    \/ OptSyntax \/ OptWidth \/ ParseEnd
    \/ DispatchHexEscape \/ DispatchDump \/ DispatchBadChar \/ DispatchNone
    \/ StdinBegin \/ StdinRead \/ StdinEOF
    \/ FileOpen \/ FileAlloc \/ FileRead \/ FileEOF
    \/ GenBegin \/ GenStep \/ GenReturn
    \/ FmtEntry \/ FmtScan \/ FmtFinish
    \/ MainFree

Spec == Init /\ [][Next]_vars

(***************************************************************************)
(* The formatter on its own: every buffer, syntax, width and flag setting. *)
(***************************************************************************)
SeqsUpTo(S, n) == UNION {[1..k -> S] : k \in 0..n}

HexChars == {52, 65, 102}
OtherChars == {EOF, 0, 10, 103}
LongChars == {52, 102, 103}

FmtInputs ==
    SeqsUpTo(HexChars \cup OtherChars, MaxLen) \cup SeqsUpTo(LongChars, MaxLen + 2)

InitFmt ==
    /\ pc = "fmt_entry"
    /\ ptr_char_array \in FmtInputs
    /\ array_size = Len(ptr_char_array)
    /\ output_lang \in 0..2
    /\ string_width \in Widths
    /\ verbose_flag \in {0, 1}
    /\ interactive_flag \in {0, 1}
    /\ nopts = 0
    /\ doOutputHexEscapedString = "uninit"
    /\ doOutputBadCharString = "uninit"
    /\ doHexDumpFile = "uninit"
    /\ doReadFromFile = "uninit"
    /\ doLimitBinaryStringWidth = "false"
    /\ fread_filename = "uninit"
    /\ consumed = <<>>
    /\ ptr_file_read = "unset"
    /\ rd_i = 0
    /\ mode = 0
    /\ gen_i = 0
    /\ length = 0
    /\ oob = FALSE
    /\ i = 0
    /\ ai = 0
    /\ invalidhexchar = 0
    /\ stdout = <<>>
    /\ stderr = <<>>
    /\ exit_status = <<>>

NextFmt == FmtEntry \/ FmtScan \/ FmtFinish

SpecFmt == InitFmt /\ [][NextFmt]_vars

(***************************************************************************)
(* Vocabulary of the properties of the formatter.                          *)
(***************************************************************************)
\* the characters 0-9, A-F, a-f
HexDigitChars == (48..57) \cup (65..70) \cup (97..102)

AllHexDigits(s) == \A k \in 1..Len(s) : s[k] \in HexDigitChars

\* the bytes that are neither a hex digit nor EOF, new line or null
IsInvalidByte(c) == c \notin HexDigitChars /\ c \notin {0 - 1, 10, 0}

IsHexDigitChar(c) == c \in HexDigitChars

\* number of positions of s holding ch
Count(s, ch) == Cardinality({k \in 1..Len(s) : s[k] = ch})

\* m occupies the positions of s right before position p
EndsBefore(s, p, m) == p - 1 >= Len(m) /\ SubSeq(s, p - Len(m), p - 1) = m

\* m occupies the positions of s from position p on
StartsAt(s, p, m) == p + Len(m) - 1 <= Len(s) /\ SubSeq(s, p, p + Len(m) - 1) = m

\* the text written by the formatter between its preamble and its warning
Literal ==
    SubSeq(stdout,
           Len(Preamble(output_lang, verbose_flag, interactive_flag)) + 1,
           Len(stdout) - (IF pc = "fmt_ret"
                          THEN Len(Warning(verbose_flag, invalidhexchar))
                          ELSE 0))

\* the scanned part of the buffer
Scanned == SubSeq(ptr_char_array, 1, i)

RECURSIVE Escaped(_)
\* the \xHL escapes of the digits s, a last odd digit as \xH
Escaped(s) ==
    IF s = <<>> THEN <<>>
    ELSE IF Len(s) = 1 THEN <<92, 120, s[1]>>
    ELSE <<92, 120, s[1], s[2]>> \o Escaped(SubSeq(s, 3, Len(s)))

RECURSIVE StripFraming(_)
\* s without the preamble texts, "buffer += ", the \x prefixes, the double
\* quotes and the new lines
StripFraming(s) ==
    IF s = <<>> THEN <<>>
    ELSE IF StartsAt(s, 1, C_PREAMBLE)
         THEN StripFraming(SubSeq(s, Len(C_PREAMBLE) + 1, Len(s)))
    ELSE IF StartsAt(s, 1, PY_PREAMBLE)
         THEN StripFraming(SubSeq(s, Len(PY_PREAMBLE) + 1, Len(s)))
    ELSE IF StartsAt(s, 1, PY_APPEND)
         THEN StripFraming(SubSeq(s, Len(PY_APPEND) + 1, Len(s)))
    ELSE IF StartsAt(s, 1, <<92, 120>>)
         THEN StripFraming(SubSeq(s, 3, Len(s)))
    ELSE IF s[1] \in {34, 10}
         THEN StripFraming(Tail(s))
    ELSE <<s[1]>> \o StripFraming(Tail(s))

\* the wrap marker of each syntax between two lines
MarkerText(lang) ==
    CASE lang = 1 -> <<34, 10, 34>>
      [] lang = 2 -> <<34, 10>> \o PY_APPEND \o <<34>>
      [] OTHER -> <<10>>

\* positions of the backslashes of s: one per escape
EscapePos(s) == {k \in 1..Len(s) : s[k] = 92}

\* 0-based index of the escape at position p of s
EscapeIndex(s, p) == Cardinality({q \in EscapePos(s) : q < p})

\* a new line lies between the escape before position p and position p
BreakBefore(s, p) ==
    \E k \in 1..(p - 1) :
        s[k] = 10 /\ \A q \in EscapePos(s) : ~(k < q /\ q < p)

\* the text of s after its last new line but one, without the final new line
LastLine(s) ==
    LET nl == {k \in 1..(Len(s) - 1) : s[k] = 10}
        from == IF nl = {} THEN 1
                ELSE (CHOOSE k \in nl : \A m \in nl : m <= k) + 1
    IN  SubSeq(s, from, Len(s) - 1)

\* C1: with syntax c and width 0 the output for a non-empty buffer of hex
\* digits is an opening quote, the escapes, a closing quote and a new line.
C1_CLiteralWidthZero ==
    (/\ pc = "fmt_ret"
     /\ output_lang = 1
     /\ string_width = 0
     /\ ptr_char_array # <<>>
     /\ AllHexDigits(ptr_char_array))
    => Literal = <<34>> \o Escaped(ptr_char_array) \o <<34, 10>>

\* C2: for a width w > 0 a wrap marker stands exactly before the escape of
\* each byte whose index is a positive multiple of w; for w = 0 the literal
\* has its final new line only; the two digits of an escape are adjacent.
C2_WrapPlacement ==
    (pc = "fmt_ret" /\ string_width >= 0)
    => LET lit == Literal
           esc == EscapePos(lit)
           due(p) == /\ string_width > 0
                     /\ EscapeIndex(lit, p) > 0
                     /\ EscapeIndex(lit, p) % string_width = 0
       IN  /\ lit # <<>> /\ lit[Len(lit)] = 10
           /\ \A p \in esc :
                /\ due(p) <=> BreakBefore(lit, p)
                /\ due(p) => EndsBefore(lit, p, MarkerText(output_lang))
                /\ StartsAt(lit, p, <<92, 120>>)
                /\ p + 2 <= Len(lit) /\ lit[p + 2] \in HexDigitChars
                /\ \/ p + 3 <= Len(lit) /\ lit[p + 3] \in HexDigitChars
                   \/ ai % 2 = 1 /\ \A q \in esc : q <= p
           /\ Count(lit, 10) = 1 + Cardinality({p \in esc : due(p)})
           /\ Cardinality(esc) = (ai + 1) \div 2

C2_Witness ==
    /\ pc = "fmt_ret"
    /\ string_width = 2
    /\ output_lang = 2
    /\ Len(ptr_char_array) = 6
    /\ ptr_char_array[2] = 103
    /\ ai = 5
    /\ Count(Literal, 10) = 2
    /\ EndsBefore(Literal, Len(Literal) - 4, MarkerText(2))

\* C3: for a buffer of hex digits of even length, the output without its
\* framing is the buffer.
C3_RoundTrip ==
    (/\ pc = "fmt_ret"
     /\ AllHexDigits(ptr_char_array)
     /\ Len(ptr_char_array) % 2 = 0)
    => StripFraming(stdout) = ptr_char_array

C3_Witness ==
    /\ pc = "fmt_ret"
    /\ AllHexDigits(ptr_char_array)
    /\ Len(ptr_char_array) = 4
    /\ ptr_char_array[2] = 65
    /\ string_width = 1
    /\ output_lang = 2
    /\ verbose_flag = 1
    /\ StripFraming(stdout) = ptr_char_array

\* C8: the counter is the number of scanned bytes that are neither hex
\* digits nor EOF, new line or null; those bytes write nothing and leave ai
\* alone, so the digits pair up across them; the warning is printed exactly
\* when verbose and the counter is positive.
C8_InvalidCounter ==
    (pc \in {"fmt_loop", "fmt_ret"})
    => /\ invalidhexchar = Len(SelectSeq(Scanned, IsInvalidByte))
       /\ ai = Len(SelectSeq(Scanned, IsHexDigitChar))
       /\ StripFraming(Literal) = SelectSeq(Scanned, IsHexDigitChar)
       /\ Cardinality(EscapePos(Literal)) = (ai + 1) \div 2
       /\ pc = "fmt_ret" =>
            ((\E k \in 1..Len(stdout) : StartsAt(stdout, k, WARN_HEAD))
                <=> (verbose_flag = 1 /\ invalidhexchar > 0))

C8_Witness ==
    /\ pc = "fmt_ret"
    /\ ptr_char_array = <<52, 103, 0, 65>>
    /\ invalidhexchar = 1
    /\ verbose_flag = 1
    /\ StripFraming(Literal) = <<52, 65>>
    /\ \E k \in 1..Len(stdout) : StartsAt(stdout, k, WARN_HEAD)

\* C9: with an odd number of accepted digits the last one is written as a
\* lone \xH and the literal is closed: for c and python the last segment
\* has its opening and its closing quote, then one new line.
C9_OddDigitsClosed ==
    (pc = "fmt_ret" /\ ai % 2 = 1)
    => LET lit == Literal
           digits == SelectSeq(ptr_char_array, IsHexDigitChar)
           lone == <<92, 120, digits[Len(digits)]>>
           last == LastLine(lit)
       IN  /\ lit[Len(lit)] = 10
           /\ IF output_lang \in {1, 2}
              THEN /\ EndsBefore(lit, Len(lit) - 1, lone)
                   /\ Count(last, 34) = 2
                   /\ last[Len(last)] = 34
                   /\ \E k \in 1..Len(last) :
                        /\ last[k] = 34
                        /\ \A q \in EscapePos(last) : k < q
              ELSE EndsBefore(lit, Len(lit), lone)

(***************************************************************************)
(* Vocabulary of the properties of main and the collectors.                *)
(***************************************************************************)
\* the digits of lowercase hexadecimal, by value
LowerHex == <<48, 49, 50, 51, 52, 53, 54, 55, 56, 57, 97, 98, 99, 100, 101, 102>>

\* the two-character lowercase hexadecimal form of each byte of s
HexExpansion(s) ==
    [k \in 1..(2 * Len(s)) |->
        IF k % 2 = 1 THEN LowerHex[(s[(k + 1) \div 2] \div 16) + 1]
        ELSE LowerHex[(s[k \div 2] % 16) + 1]]

\* block holds the bytes of s at its first Len(s) positions
HoldsBytes(block, s) ==
    /\ Len(block) >= Len(s)
    /\ \A k \in 1..Len(s) : block[k] # Uninit /\ (block[k] - s[k]) % 256 = 0

\* the formatter is running on, or has returned from, the collected input
AtFormatterAfterCollector ==
    pc \in {"fmt_entry", "fmt_loop", "fmt_ret"} /\ gen_i = 0

\* the formatter is running on, or has returned from, the generated sequence
AtFormatterAfterGenerator ==
    pc \in {"fmt_entry", "fmt_loop", "fmt_ret"} /\ gen_i = 256

\* C4: the length handed to the formatter is the number of bytes collected
\* (twice that in hex-expand mode) and the buffer holds them up to there.
C4_CollectedLength ==
    (AtFormatterAfterCollector /\ doOutputHexEscapedString = "true")
    => LET expected == IF mode = 2 THEN HexExpansion(consumed) ELSE consumed
       IN  /\ array_size = Len(expected)
           /\ HoldsBytes(ptr_char_array, expected)

\* C5: when the file of -D or of -x -f cannot be opened the process exits
\* with a non-zero status and standard output is empty.
C5_OpenFailureSilent ==
    (/\ pc = "exit"
     /\ ptr_file_read = "null"
     /\ fread_filename = "in"
     /\ \/ doHexDumpFile = "true"
        \/ doOutputHexEscapedString = "true" /\ doReadFromFile = "true")
    => exit_status # <<0>> /\ stdout = <<>>

\* C6: a command line with no action flag and no help, version or invalid
\* option prints the usage on standard output and exits with status 0.
C6_NoActionUsage ==
    (/\ pc = "exit"
     /\ stderr = <<>>
     /\ doOutputHexEscapedString = "uninit"
     /\ doHexDumpFile = "uninit"
     /\ doOutputBadCharString = "uninit")
    => stdout = Usage /\ exit_status = <<0>>

\* C7: a file that was opened is closed by fclose before the process ends,
\* also when the process ends while the file given with -x -D or -x -f is
\* being read.
C7_FileClosedOnExit ==
    (/\ pc = "exit"
     /\ doOutputHexEscapedString = "true"
     /\ doHexDumpFile = "true" \/ doReadFromFile = "true"
     /\ consumed # <<>>)
    => ptr_file_read # "open"

\* C10: the generated sequence is the 510 characters 01 02 .. ff in lowercase
\* hexadecimal, no pair twice and no 00; the formatter writes 255 escapes
\* for it, counts no invalid character and leaves no lone digit.
C10_BadcharSequence ==
    AtFormatterAfterGenerator
    => /\ length = 510
       /\ array_size = 510
       /\ Len(ptr_char_array) = 510
       /\ \A k \in 1..255 :
            /\ ptr_char_array[2 * k - 1] = LowerHex[(k \div 16) + 1]
            /\ ptr_char_array[2 * k] = LowerHex[(k % 16) + 1]
       /\ pc = "fmt_entry" =>
            /\ \A j, k \in 1..255 :
                 j < k => SubSeq(ptr_char_array, 2 * j - 1, 2 * j)
                            # SubSeq(ptr_char_array, 2 * k - 1, 2 * k)
            /\ \A k \in 1..255 :
                 SubSeq(ptr_char_array, 2 * k - 1, 2 * k) # <<48, 48>>
       /\ pc = "fmt_ret" =>
            /\ ai = 510
            /\ invalidhexchar = 0
            /\ Cardinality(EscapePos(stdout)) = 255
            /\ \A p \in EscapePos(stdout) :
                 /\ StartsAt(stdout, p, <<92, 120>>)
                 /\ stdout[p + 2] \in HexDigitChars
                 /\ stdout[p + 3] \in HexDigitChars

C10_Witness ==
    /\ pc = "fmt_ret"
    /\ gen_i = 256
    /\ doOutputBadCharString = "true"
    /\ output_lang = 1
    /\ string_width = 2
    /\ Cardinality(EscapePos(stdout)) = 255
    /\ SubSeq(ptr_char_array, 507, 510) = <<102, 101, 102, 102>>

\* a collector is in its read loop, storing to the block
InCollectorLoop ==
    pc = "stdin_loop" \/ (pc = "file_loop" /\ mode >= 1)

\* C11: in the read loops of standard-input, raw-file and hex-expand mode
\* the bytes written are at most the capacity, the next store (both of its
\* cells in hex-expand mode) and every store so far lie below the capacity,
\* and the bytes written so far are still at their positions after growth.
C11_BufferWithinCapacity ==
    InCollectorLoop
    => LET written == IF mode = 2 THEN HexExpansion(consumed) ELSE consumed
           capacity == Len(ptr_char_array)
       IN  /\ rd_i = Len(written)
           /\ rd_i <= capacity
           /\ rd_i + (IF mode = 2 THEN 1 ELSE 0) < capacity
           /\ ~oob
           /\ HoldsBytes(ptr_char_array, written)

C11_Witness ==
    /\ pc = "file_loop"
    /\ mode = 2
    /\ consumed = <<200, 52>>
    /\ rd_i = 4
    /\ Len(ptr_char_array) = 6
    /\ SubSeq(ptr_char_array, 1, 4) = <<99, 56, 51, 52>>

\* C12: every byte generate_badchar_sequence stores, the null after each
\* pair of digits included, lands below the BADCHAR_HEX_SEQLEN bytes of its
\* block.
C12_GeneratorStoresInBlock ==
    gen_i >= 1 => ~oob

====
